---- MODULE Spec2Model ----
(***************************************************************************)
(* The cooked-mesh cache of geometryToPxMesh: a module-level Map from an   *)
(* id string to an item { id, pmesh, refs }, handed out through            *)
(* PMeshHandle objects that count references and destroy the item at zero. *)
(*                                                                         *)
(* JavaScript runs each call to completion and neither geometryToPxMesh    *)
(* nor PMeshHandle.release awaits or yields, so one call is one step.      *)
(***************************************************************************)
EXTENDS Integers, Sequences, FiniteSets, TLC

\* ------------------------------------------------------------- bounds
\* Number of geometryToPxMesh calls a behaviour makes.
MaxAcquires == 3

\* Bounding-box sizes are held in units of 1/ExtentUnit, so that an extent
\* just above the threshold (5.5) is representable.
ExtentUnit == 2

\* ------------------------------------------------------------- inputs
Null == 0

\* The geometries callers pass: uuid, size of the bounding box (x, y, z),
\* geometry.index (absent for a non-indexed geometry, else the kind of typed
\* array and its elements), the floats of attributes.position and whether that
\* attribute is interleaved. The sizes lie exactly at, above and below the
\* threshold of 5 * TARGET_EXTENT. Two geometries with one uuid are one object
\* that the caller changed between calls (rescaled, index removed).
Geometries ==
  { [uuid |-> "a", size |-> <<2, 5 * ExtentUnit, 4>>, index |-> "u16",
     indices |-> <<0, 1, 300>>, positions |-> <<0, 1, 2, 3, 4, 5>>,
     interleaved |-> FALSE],
    [uuid |-> "a", size |-> <<5 * ExtentUnit + 1, 2, 2>>, index |-> "u32",
     indices |-> <<0, 70000, 1>>, positions |-> <<2, 11, 4>>,
     interleaved |-> FALSE],
    [uuid |-> "b", size |-> <<1, 2, 1>>, index |-> "none",
     indices |-> <<>>, positions |-> <<1, 2, 1, 0>>,
     interleaved |-> FALSE],
    [uuid |-> "b", size |-> <<1, 2, 1>>, index |-> "u8",
     indices |-> <<0, 1, 2, 255, 0, 1>>, positions |-> <<1, 2, 1>>,
     interleaved |-> TRUE] }

\* What the native side does during one call: nothing special, the cooking
\* routine returns null (geometry rejected), the cooking routine throws,
\* _webidl_malloc fails (aborts) on the first or on the second allocation.
Faults == {"none", "cookNull", "cookThrow", "oomPoints", "oomIndex"}

\* ------------------------------------------------------------- state
VARIABLES
  cache,       \* the Map: id string -> item (an index into items)
  items,       \* every item object ever created: [id, pmesh, refs, bakeScale]
  handles,     \* every PMeshHandle ever created: [item, released, value]
  pmeshes,     \* native cooked meshes: pmeshes[p] = number of release() calls on p
  heap,        \* live pointers returned by _webidl_malloc and not yet freed
  descs,       \* live native mesh descriptors (new PHYSX.Px...MeshDesc)
  cookCount,   \* invocations of CreateConvexMesh / CreateTriangleMesh
  mallocCount, \* successful _webidl_malloc calls
  acquires,    \* geometryToPxMesh calls made
  run,         \* the current series of back-to-back calls with one (geometry, convex)
  last         \* the call that produced this state

vars == <<cache, items, handles, pmeshes, heap, descs, cookCount, mallocCount,
          acquires, run, last>>

\* ------------------------------------------------------------- scale and key
Max2(a, b) == IF a >= b THEN a ELSE b

\* Math.max(size.x, size.y, size.z)
MaxExtent(size) == Max2(size[1], Max2(size[2], size[3]))

TARGET_EXTENT == 1

RECURSIVE Gcd(_, _)
Gcd(a, b) == IF b = 0 THEN a ELSE Gcd(b, a % b)

\* a rational num/den in lowest terms
Rat(num, den) == <<num \div Gcd(num, den), den \div Gcd(num, den)>>

\* mutant: the threshold itself is scaled (>= for >)
BakeScaleFromThreshold(maxExtent) ==
  IF maxExtent >= TARGET_EXTENT * 5 * ExtentUnit
    THEN Rat(TARGET_EXTENT * ExtentUnit, maxExtent)
    ELSE <<1, 1>>

\* maxExtent > TARGET_EXTENT * 5 ? TARGET_EXTENT / maxExtent : 1.0
\* (maxExtent is in units of 1/ExtentUnit)
BakeScale(maxExtent) ==
  IF maxExtent > TARGET_EXTENT * 5 * ExtentUnit
    THEN Rat(TARGET_EXTENT * ExtentUnit, maxExtent)
    ELSE <<1, 1>>

\* Number -> string inside the template literal: distinct numbers give
\* distinct strings, a whole number prints without a fraction.
NumberToString(r) ==
  IF r[2] = 1 THEN ToString(r[1]) ELSE ToString(r[1]) \o "/" \o ToString(r[2])

\* mutant: the id leaves out the mode
CacheIdWithoutMode(uuid, convex, bakeScale) ==
  uuid \o "_bs" \o NumberToString(bakeScale)

\* `${geometry.uuid}_${convex ? 'convex' : 'triangles'}_bs${bakeScale}`
CacheId(uuid, convex, bakeScale) ==
  uuid \o "_" \o (IF convex THEN "convex" ELSE "triangles") \o "_bs" \o NumberToString(bakeScale)

IdOf(geometry, convex) ==
  CacheId(geometry.uuid, convex, BakeScale(MaxExtent(geometry.size)))

\* ------------------------------------------------------------- buffers
\* The typed arrays a call reads and writes are named by who owns them:
\* "caller" is the array of the caller's geometry, the others are arrays the
\* call created.

\* position.array after the deinterleave branch: an interleaved attribute is
\* copied into a new Float32Array, any other is used as it is
PositionsArray(geometry) ==
  IF geometry.interleaved THEN "copy" ELSE "caller"

\* mutant: the positions are scaled in place
ScaledPositionsInPlace(bakeScale, positions) == positions

\* const scaledPositions = bakeScale === 1.0 ? positions : new Float32Array(...)
ScaledPositionsArray(bakeScale, positions) ==
  IF bakeScale = <<1, 1>> THEN positions ELSE "scaled"

\* the floats of an array, as rationals
Floats(data) == [i \in 1..Len(data) |-> <<data[i], 1>>]

\* scaledPositions[i] = positions[i] * bakeScale, as rationals
ScaleAll(data, bakeScale) ==
  [i \in 1..Len(data) |-> Rat(data[i] * bakeScale[1], bakeScale[2])]

\* what HEAPF32.set copies to pointsPtr
ScaledPositions(geometry, bakeScale) ==
  IF bakeScale # <<1, 1>> THEN ScaleAll(geometry.positions, bakeScale)
                          ELSE Floats(geometry.positions)

\* the caller's position array when the call is over: the loop writes to
\* scaledPositions when bakeScale !== 1.0
CallerPositionsAfter(geometry, bakeScale) ==
  IF /\ bakeScale # <<1, 1>>
     /\ ScaledPositionsArray(bakeScale, PositionsArray(geometry)) = "caller"
    THEN ScaleAll(geometry.positions, bakeScale)
    ELSE Floats(geometry.positions)

\* mutant: the widening loop stops one element early
WidenCopyShort(data) ==
  [i \in 1..Len(data) |-> IF i < Len(data) THEN data[i] % 65536 ELSE 0]

\* indices = new Uint16Array(n); indices[i] = index.array[i]
WidenCopy(data) == [i \in 1..Len(data) |-> data[i] % 65536]

\* if (indices instanceof Uint8Array) ... : the array handed on, its element
\* width in bits and its elements
CoerceIndices(geometry) ==
  IF geometry.index = "u8"
    THEN [array |-> "widened", bits |-> 16, data |-> WidenCopy(geometry.indices)]
    ELSE [array |-> "caller", bits |-> IF geometry.index = "u16" THEN 16 ELSE 32,
          data |-> geometry.indices]

\* the caller's index array when the call is over: nothing writes to it
CallerIndicesAfter(geometry, convex) == geometry.indices

\* desc as the cooking routine gets it: points.count and triangles.count are
\* JavaScript quotients (rationals here), stride in bytes
NoDesc == [mode |-> "none"]

ConvexDesc(geometry, bakeScale) ==
  [mode |-> "convex",
   pointsCount |-> Rat(Len(geometry.positions), 3), pointsStride |-> 12,
   points |-> ScaledPositions(geometry, bakeScale)]

TriangleDesc(geometry, bakeScale) ==
  LET ix == CoerceIndices(geometry)
  IN [mode |-> "triangles",
      pointsCount |-> Rat(Len(geometry.positions), 3), pointsStride |-> 12,
      points |-> ScaledPositions(geometry, bakeScale),
      trianglesCount |-> Rat(Len(ix.data), 3),
      trianglesStride |-> IF ix.bits = 16 THEN 6 ELSE 12,
      bits16 |-> ix.bits = 16,
      triangles |-> ix.data]

\* ------------------------------------------------------------- native heap
\* _webidl_malloc: some address that is not in use
Malloc(h) == CHOOSE p \in 1..(Cardinality(h) + 1) : p \notin h

\* _webidl_free
Free(h, p) == h \ {p}

\* ------------------------------------------------------------- cooking
\* The miss path of geometryToPxMesh from the first allocation to the frees:
\* what it leaves on the native heap, how often it cooked and allocated, and
\* how it ended ("ok": pmesh set, "null": pmesh unset, "throw": an exception
\* left the function).
FreePointsAfterCook(h, pointsPtr) == Free(h, pointsPtr)

FreeIndexAfterCook(h, indexPtr) == Free(h, indexPtr)

CookConvex(fault, h, pointsPtr) ==
  IF fault = "cookThrow"
    THEN [end |-> "throw", native |-> "throw", heap |-> h, descs |-> 1,
          cooks |-> 1, mallocs |-> 1]
    ELSE [end |-> IF fault = "cookNull" THEN "null" ELSE "ok",
          native |-> IF fault = "cookNull" THEN "null" ELSE "ok",
          heap |-> FreePointsAfterCook(h, pointsPtr), descs |-> 0,
          cooks |-> 1, mallocs |-> 1]

\* mutant: a missing index is read as an empty one (index?.array ?? [])
CookTrianglesIndexOptional(geometry, fault, h, pointsPtr) ==
  IF fault = "oomIndex"
    THEN [end |-> "throw", native |-> "none", heap |-> h, descs |-> 1,
          cooks |-> 0, mallocs |-> 1]
    ELSE [end |-> IF fault \in {"cookNull", "cookThrow"} THEN "null" ELSE "ok",
          native |-> CASE fault = "cookNull" -> "null"
                       [] fault = "cookThrow" -> "throw"
                       [] OTHER -> "ok",
          heap |-> h \ {pointsPtr}, descs |-> 0, cooks |-> 1, mallocs |-> 2]

CookTriangles(geometry, fault, h, pointsPtr) ==
  IF geometry.index = "none"
    THEN \* index.array of null: TypeError
         [end |-> "throw", native |-> "none", heap |-> h, descs |-> 1,
          cooks |-> 0, mallocs |-> 1]
  ELSE IF fault = "oomIndex"
    THEN [end |-> "throw", native |-> "none", heap |-> h, descs |-> 1,
          cooks |-> 0, mallocs |-> 1]
  ELSE LET indexPtr == Malloc(h)
           h2 == h \cup {indexPtr}
           \* try { cook } catch { log } finally { free(indexPtr) }
           h3 == FreeIndexAfterCook(h2, indexPtr)
       IN [end |-> IF fault \in {"cookNull", "cookThrow"} THEN "null" ELSE "ok",
           native |-> CASE fault = "cookNull" -> "null"
                        [] fault = "cookThrow" -> "throw"
                        [] OTHER -> "ok",
           heap |-> FreePointsAfterCook(h3, pointsPtr), descs |-> 0,
           cooks |-> 1, mallocs |-> 2]

Cook(geometry, convex, fault, h) ==
  IF fault = "oomPoints"
    THEN [end |-> "throw", native |-> "none", heap |-> h, descs |-> 0,
          cooks |-> 0, mallocs |-> 0]
    ELSE LET pointsPtr == Malloc(h)
             h1 == h \cup {pointsPtr}
         IN IF convex THEN CookConvex(fault, h1, pointsPtr)
                      ELSE CookTriangles(geometry, fault, h1, pointsPtr)

\* ------------------------------------------------------------- PMeshHandle
\* mutant: the constructor does not count the new handle
RefsNotCounted(refs) == refs

\* mutant: the constructor counts the new handle twice
RefsCountedTwice(refs) == refs + 2

\* this.item.refs++
RefsAfterConstruct(refs) == refs + 1

\* mutant: release() takes two references
RefsReleasedTwice(refs) == refs - 2

\* this.item.refs--
RefsAfterRelease(refs) == refs - 1

\* mutant: destroys when one reference is still held
LastReferenceOffByOne(refs) == refs <= 1

\* if (this.item.refs === 0)
LastReference(refs) == refs = 0

\* mutant: release() without the released guard
AlreadyReleasedIgnored(hd) == FALSE

\* if (this.released) return
AlreadyReleased(hd) == hd.released

\* mutant: the destroyed item stays in the Map
CacheDeleteSkipped(c, id) == c

\* mutant: cache.clear() for cache.delete(id)
CacheCleared(c, id) == <<>>

\* cache.delete(this.item.id)
CacheDelete(c, id) == [k \in DOMAIN c \ {id} |-> c[k]]

\* mutant: the native mesh is not released
PmeshReleaseSkipped(ps, p) == ps

\* this.item.pmesh.release()
PmeshRelease(ps, p) == [ps EXCEPT ![p] = @ + 1]

\* mutant: the null check is missing, a rejected cook is stored like a mesh
PmeshSetUnchecked(end) == end # "throw"

\* if (!pmesh) return null
PmeshSet(end) == end = "ok"

\* mutant: the lookup never finds the item
CacheNeverHas(c, id) == FALSE

\* let item = cache.get(id); if (item)
CacheHas(c, id) == id \in DOMAIN c

\* new PMeshHandle(item): the handle, and the item with one more reference
NewHandle(its, i) ==
  [handle |-> [item |-> i, released |-> FALSE, value |-> its[i].pmesh],
   items  |-> [its EXCEPT ![i].refs = RefsAfterConstruct(@)]]

\* ------------------------------------------------------------- history
NoRun == [geometry |-> Null, convex |-> FALSE, fresh |-> FALSE, calls |-> 0,
          cooks |-> 0, inserts |-> 0, handles |-> <<>>]

\* The series of back-to-back calls geometryToPxMesh(_, geometry, convex),
\* extended by one call; a call with other arguments starts a new series.
RunAfter(geometry, convex, wasCached, cooks, inserts, h) ==
  LET base == IF run.calls > 0 /\ run.geometry = geometry /\ run.convex = convex
                THEN run
                ELSE [NoRun EXCEPT !.geometry = geometry, !.convex = convex,
                                   !.fresh = ~wasCached]
  IN [base EXCEPT !.calls = @ + 1, !.cooks = @ + cooks, !.inserts = @ + inserts,
                  !.handles = IF h = Null THEN @ ELSE Append(@, h)]

\* ------------------------------------------------------------- actions
Init ==
  /\ cache = <<>>
  /\ items = <<>>
  /\ handles = <<>>
  /\ pmeshes = <<>>
  /\ heap = {}
  /\ descs = 0
  /\ cookCount = 0
  /\ mallocCount = 0
  /\ acquires = 0
  /\ run = NoRun
  /\ last = [op |-> "init", id |-> "", path |-> "", native |-> "none", result |-> "",
             handle |-> Null, mallocs |-> 0, desc |-> NoDesc, after |-> Null]

\* the hit: return new PMeshHandle(item)
AcquireHit(geometry, convex) ==
  LET id == IdOf(geometry, convex)
      new == NewHandle(items, cache[id])
  IN /\ CacheHas(cache, id)
     /\ items' = new.items
     /\ handles' = Append(handles, new.handle)
     /\ run' = RunAfter(geometry, convex, TRUE, 0, 0, Len(handles) + 1)
     /\ last' = [op |-> "acquire", id |-> id, path |-> "hit", native |-> "none",
                 result |-> "handle",
                 handle |-> Len(handles) + 1, mallocs |-> 0, desc |-> NoDesc,
                 after |-> [positions |-> Floats(geometry.positions),
                            indices |-> geometry.indices]]
     /\ UNCHANGED <<cache, pmeshes, heap, descs, cookCount, mallocCount>>

\* mutant: the item is created with refs: 1
InsertItemRefsOne(id, bakeScale) ==
  LET p == Len(pmeshes) + 1
      i == Len(items) + 1
      its == Append(items, [id |-> id, pmesh |-> p, refs |-> 1, bakeScale |-> bakeScale])
      new == NewHandle(its, i)
  IN /\ pmeshes' = Append(pmeshes, 0)
     /\ cache' = (id :> i) @@ cache
     /\ items' = new.items
     /\ handles' = Append(handles, new.handle)

\* item = { id, pmesh, refs: 0, bakeScale }; cache.set(id, item);
\* return new PMeshHandle(item)
InsertItem(id, bakeScale) ==
  LET p == Len(pmeshes) + 1
      i == Len(items) + 1
      its == Append(items, [id |-> id, pmesh |-> p, refs |-> 0, bakeScale |-> bakeScale])
      new == NewHandle(its, i)
  IN /\ pmeshes' = Append(pmeshes, 0)
     /\ cache' = (id :> i) @@ cache
     /\ items' = new.items
     /\ handles' = Append(handles, new.handle)

AcquireMiss(geometry, convex, fault) ==
  LET bakeScale == BakeScale(MaxExtent(geometry.size))
      id == IdOf(geometry, convex)
      c == Cook(geometry, convex, fault, heap)
      ok == PmeshSet(c.end)
  IN /\ ~CacheHas(cache, id)
     /\ heap' = c.heap
     /\ descs' = descs + c.descs
     /\ cookCount' = cookCount + c.cooks
     /\ mallocCount' = mallocCount + c.mallocs
     /\ IF ok  \* if (!pmesh) return null
          THEN InsertItem(id, bakeScale)
          ELSE UNCHANGED <<cache, items, handles, pmeshes>>
     /\ run' = RunAfter(geometry, convex, FALSE, c.cooks, IF ok THEN 1 ELSE 0,
                        IF ok THEN Len(handles) + 1 ELSE Null)
     /\ last' = [op |-> "acquire", id |-> id, path |-> "miss", native |-> c.native,
                 result |-> IF ok THEN "handle" ELSE c.end,
                 handle |-> IF ok THEN Len(handles) + 1 ELSE Null,
                 mallocs |-> c.mallocs,
                 desc |-> IF c.native = "none" THEN NoDesc
                          ELSE IF convex THEN ConvexDesc(geometry, bakeScale)
                          ELSE TriangleDesc(geometry, bakeScale),
                 after |-> [positions |-> CallerPositionsAfter(geometry, bakeScale),
                            indices |-> CallerIndicesAfter(geometry, convex)]]

\* geometryToPxMesh(world, geometry, convex)
Acquire(geometry, convex, fault) ==
  /\ acquires < MaxAcquires
  /\ acquires' = acquires + 1
  /\ \/ AcquireHit(geometry, convex)
     \/ AcquireMiss(geometry, convex, fault)

\* PMeshHandle.release()
Release(h) ==
  LET hd == handles[h]
      i == hd.item
      refs == RefsAfterRelease(items[i].refs)
  IN /\ last' = [op |-> "release", id |-> items[i].id,
                 path |-> IF hd.released THEN "noop" ELSE "first",
                 native |-> "none", result |-> "",
                 handle |-> h, mallocs |-> 0, desc |-> NoDesc, after |-> Null]
     /\ run' = NoRun
     /\ UNCHANGED <<heap, descs, cookCount, mallocCount, acquires>>
     /\ IF AlreadyReleased(hd)
          THEN UNCHANGED <<cache, items, handles, pmeshes>>
          ELSE /\ items' = [items EXCEPT ![i].refs = refs]
               /\ IF LastReference(refs)
                    THEN /\ pmeshes' = PmeshRelease(pmeshes, items[i].pmesh)
                         /\ cache' = CacheDelete(cache, items[i].id)
                    ELSE UNCHANGED <<cache, pmeshes>>
               /\ handles' = [handles EXCEPT ![h].released = TRUE, ![h].value = Null]

Next ==
  \/ \E geometry \in Geometries, convex \in BOOLEAN, fault \in Faults :
       Acquire(geometry, convex, fault)
  \/ \E h \in 1..Len(handles) : Release(h)

Spec == Init /\ [][Next]_vars

\* ------------------------------------------------------------- the id alone
\* The first lines of geometryToPxMesh (bounding box to id) on their own, for
\* two calls in a row, over more uuids and bounding boxes than Geometries has.
KeyUUIDs == {"a", "a_convex", "a_convex_bs1"}

KeyExtents == {1, 5 * ExtentUnit - 1, 5 * ExtentUnit, 5 * ExtentUnit + 1,
               5 * ExtentUnit + 2}

\* the largest extent on each of the three axes
KeySizes == UNION {{<<e, 1, 0>>, <<0, e, 1>>, <<1, 0, e>>} : e \in KeyExtents}

\* no call yet
NoId == [id |-> ""]

\* bbox.getSize(size) ... const id = ...
ComputeId(uuid, size, convex) ==
  LET maxExtent == MaxExtent(size)
      bakeScale == BakeScale(maxExtent)
  IN /\ last' = [op |-> "id",
                 first |-> IF last.op = "id" THEN last.second ELSE NoId,
                 second |-> [uuid |-> uuid, convex |-> convex, size |-> size,
                             bakeScale |-> bakeScale,
                             id |-> CacheId(uuid, convex, bakeScale)]]
     /\ UNCHANGED <<cache, items, handles, pmeshes, heap, descs, cookCount,
                    mallocCount, acquires, run>>

KeyNext ==
  \E uuid \in KeyUUIDs, size \in KeySizes, convex \in BOOLEAN :
    ComputeId(uuid, size, convex)

KeySpec == Init /\ [][KeyNext]_vars

\* ------------------------------------------------------------- vocabulary
\* the handles created on item i, and those of them not yet released
HandlesOf(i) == {h \in 1..Len(handles) : handles[h].item = i}

Outstanding(i) == {h \in HandlesOf(i) : ~handles[h].released}

\* the items the cache maps some id to
Cached == {cache[k] : k \in DOMAIN cache}

\* a step that is one geometryToPxMesh call / one PMeshHandle.release call
AcquireStep == acquires' = acquires + 1

ReleaseStep == acquires' = acquires /\ last'.op = "release"

\* ------------------------------------------------------------- C1
\* C1: two back-to-back calls with one geometry and mode, the first on an id
\* that is not cached, both cooking/returning successfully, return two handles
\* on one cache entry whose refs is then 2; and an entry all of whose handles
\* have been released has had its pmesh released exactly once and is no longer
\* in the cache.
C1_SharedEntryDestroyedOnce ==
  /\ (run.fresh /\ run.calls = 2 /\ Len(run.handles) = 2) =>
       LET h1 == run.handles[1]
           h2 == run.handles[2]
           i == handles[h1].item
       IN /\ h1 # h2
          /\ handles[h2].item = i
          /\ items[i].refs = 2
          /\ items[i].id \in DOMAIN cache /\ cache[items[i].id] = i
          /\ run.cooks = 1
  /\ \A i \in 1..Len(items) :
       (HandlesOf(i) # {} /\ Outstanding(i) = {}) =>
         /\ pmeshes[items[i].pmesh] = 1
         /\ i \notin Cached
         /\ items[i].id \notin DOMAIN cache \/ cache[items[i].id] # i

\* an entry with exactly two handles, created one right after the other, both
\* released
C1_Witness ==
  \E i \in 1..Len(items) :
    /\ Cardinality(HandlesOf(i)) = 2
    /\ Outstanding(i) = {}
    /\ \E h \in HandlesOf(i) : h + 1 \in HandlesOf(i)
    /\ pmeshes[items[i].pmesh] = 1

\* ------------------------------------------------------------- C2
\* C2: a call that finds an entry stored under its id adds exactly one to that
\* entry's refs and returns a new handle on it; it does not cook and does not
\* allocate: cookCount, mallocCount, the heap, the cache and every other item
\* are as before.
C2_HitStep ==
  (AcquireStep /\ last'.id \in DOMAIN cache) =>
    LET i == cache[last'.id]
    IN /\ last'.result = "handle"
       /\ Len(handles') = Len(handles) + 1
       /\ handles'[Len(handles')] = [item |-> i, released |-> FALSE, value |-> items[i].pmesh]
       /\ \A h \in 1..Len(handles) : handles'[h] = handles[h]
       /\ items' = [items EXCEPT ![i].refs = items[i].refs + 1]
       /\ cookCount' = cookCount
       /\ mallocCount' = mallocCount
       /\ heap' = heap /\ descs' = descs
       /\ cache' = cache /\ pmeshes' = pmeshes

C2_HitNoCook == [][C2_HitStep]_vars

\* a hit has just happened
C2_Witness ==
  /\ last.op = "acquire" /\ last.path = "hit"
  /\ items[handles[last.handle].item].refs >= 2
  /\ cookCount = 1

\* ------------------------------------------------------------- C3
\* C3: a call that misses and whose cooking routine returns a mesh makes exactly
\* one cook invocation, stores exactly one new entry under the id, and returns
\* with that entry at refs 1 and one handle on it.
C3_MissStep ==
  (AcquireStep /\ last'.id \notin DOMAIN cache /\ last'.native = "ok") =>
    LET i == Len(items) + 1
    IN /\ cookCount' = cookCount + 1
       /\ Len(items') = i
       /\ \A j \in 1..Len(items) : items'[j] = items[j]
       /\ DOMAIN cache' = DOMAIN cache \cup {last'.id}
       /\ \A k \in DOMAIN cache : cache'[k] = cache[k]
       /\ cache'[last'.id] = i
       /\ items'[i].id = last'.id
       /\ items'[i].refs = 1
       /\ last'.result = "handle"
       /\ Len(handles') = Len(handles) + 1
       /\ last'.handle = Len(handles')
       /\ handles'[Len(handles')] =
            [item |-> i, released |-> FALSE, value |-> items'[i].pmesh]
       /\ pmeshes'[items'[i].pmesh] = 0

C3_MissCooksOnce == [][C3_MissStep]_vars

C3_Witness ==
  /\ last.op = "acquire" /\ last.path = "miss" /\ last.native = "ok"
  /\ last.handle # Null
  /\ items[handles[last.handle].item].refs = 1
  /\ Cardinality(DOMAIN cache) = 2

\* ------------------------------------------------------------- C4
\* C4: the first release() of a handle takes exactly one from its entry's refs;
\* every later release() of that handle changes neither refs, nor the cache,
\* nor any native mesh, nor the handle.
C4_ReleaseStep ==
  ReleaseStep =>
    LET h == last'.handle
        i == handles[h].item
    IN IF handles[h].released
         THEN /\ items' = items
              /\ cache' = cache
              /\ pmeshes' = pmeshes
              /\ handles' = handles
         ELSE /\ items' = [items EXCEPT ![i].refs = items[i].refs - 1]
              /\ handles'[h].released
              /\ \A g \in 1..Len(handles) : g # h => handles'[g] = handles[g]

C4_ReleaseIdempotent == [][C4_ReleaseStep]_vars

\* a released handle has been released again while its entry is still shared
C4_Witness ==
  /\ last.op = "release" /\ last.path = "noop"
  /\ handles[last.handle].released
  /\ items[handles[last.handle].item].refs = 1
  /\ handles[last.handle].item \in Cached

\* ------------------------------------------------------------- C5
\* C5: the release() that takes refs to 0 releases the pmesh and removes the
\* entry in that same step; after every call no cached entry has refs 0.
C5_NoZeroCached == \A k \in DOMAIN cache : items[cache[k]].refs # 0

C5_DestroyStep ==
  /\ C5_NoZeroCached'
  /\ ReleaseStep =>
       LET i == handles[last'.handle].item
       IN (items[i].refs # 0 /\ items'[i].refs = 0) =>
            /\ pmeshes'[items[i].pmesh] = pmeshes[items[i].pmesh] + 1
            /\ items[i].id \in DOMAIN cache /\ cache[items[i].id] = i
            /\ DOMAIN cache' = DOMAIN cache \ {items[i].id}

C5_DestroyAtZero == [][C5_DestroyStep]_vars

\* the last of two handles has just been released and its entry is gone
C5_Witness ==
  /\ last.op = "release" /\ last.path = "first"
  /\ items[handles[last.handle].item].refs = 0
  /\ Cardinality(HandlesOf(handles[last.handle].item)) = 2
  /\ items[handles[last.handle].item].id \notin DOMAIN cache

\* ------------------------------------------------------------- C6
\* C6: no native mesh is released more than once, and the mesh of every handle
\* that has not been released is live (never released).
C6_NoDoubleFreeNoUseAfterRelease ==
  /\ \A p \in 1..Len(pmeshes) : pmeshes[p] <= 1
  /\ \A h \in 1..Len(handles) :
       ~handles[h].released =>
         /\ handles[h].value = items[handles[h].item].pmesh
         /\ pmeshes[handles[h].value] = 0

\* one mesh has been released while a handle on another entry is outstanding
C6_Witness ==
  /\ \E p \in 1..Len(pmeshes) : pmeshes[p] = 1
  /\ \E h \in 1..Len(handles) : ~handles[h].released
  /\ \E h \in 1..Len(handles) : handles[h].released /\ items[handles[h].item].refs = 1

\* ------------------------------------------------------------- C7
\* the items whose pmesh has been released
Destroyed == {i \in 1..Len(items) : pmeshes[items[i].pmesh] > 0}

\* C7: a destroyed item is never in the cache again and no handle created
\* afterwards is on it; a call on the id of a destroyed item that returns
\* normally has cooked once more, and when it returns a handle, the handle is
\* on a new item with a new, live pmesh.
C7_DestroyedStep ==
  /\ \A i \in Destroyed : i \in Destroyed' /\ i \notin Cached'
                            /\ items'[i] = items[i]
                            /\ HandlesOf(i)' = HandlesOf(i)
  /\ (AcquireStep /\ \E i \in Destroyed : items[i].id = last'.id
                  /\ last'.id \notin DOMAIN cache) =>
       /\ last'.path = "miss"
       /\ last'.result \in {"handle", "null"} => cookCount' = cookCount + 1
       /\ last'.result = "handle" =>
            LET n == handles'[last'.handle].item
            IN /\ n = Len(items) + 1
               /\ cache'[last'.id] = n
               /\ items'[n].pmesh \notin 1..Len(pmeshes)
               /\ pmeshes'[items'[n].pmesh] = 0
               /\ \A i \in Destroyed : items[i].pmesh # items'[n].pmesh

C7_DestroyedIsTerminal == [][C7_DestroyedStep]_vars

\* an id whose item was destroyed has been cooked and cached again
C7_Witness ==
  /\ last.op = "acquire" /\ last.result = "handle" /\ last.path = "miss"
  /\ \E i \in Destroyed : /\ items[i].id = last.id
                          /\ cache[last.id] # i
                          /\ items[cache[last.id]].pmesh # items[i].pmesh

\* ------------------------------------------------------------- C8
\* C8: when the cooking routine rejects the geometry (returns null in either
\* mode, or throws in triangle mode, where the exception is caught) the call
\* returns null and stores nothing; nothing about the rejection is kept: the
\* next call with the same id misses and, unless an allocation or the index
\* read throws first, invokes the cooking routine again.
C8_RejectStep ==
  /\ (AcquireStep /\ last'.native = "null") =>
       /\ last'.result = "null" /\ last'.handle = Null
       /\ cache' = cache /\ items' = items /\ handles' = handles
       /\ pmeshes' = pmeshes
  /\ (AcquireStep /\ last'.native = "throw") =>
       /\ last'.result \in {"null", "throw"} /\ last'.handle = Null
       /\ cache' = cache /\ items' = items /\ handles' = handles
       /\ pmeshes' = pmeshes
  /\ (AcquireStep /\ last.op = "acquire" /\ last.native \in {"null", "throw"}
                  /\ last'.id = last.id) =>
       /\ last'.path = "miss"
       /\ last'.native # "none" => cookCount' = cookCount + 1
       /\ last'.native = "none" => last'.result = "throw"

C8_RejectionNotCached == [][C8_RejectStep]_vars

\* one id was rejected, cooked again and rejected again (triangle mode)
C8_Witness ==
  /\ last.op = "acquire" /\ last.native = "null" /\ last.result = "null"
  /\ run.calls = 2 /\ run.cooks = 2 /\ run.inserts = 0
  /\ ~run.convex
  /\ cache = <<>>

\* ------------------------------------------------------------- C9
\* C9 (as claimed): when a call has returned or thrown, every buffer it
\* allocated with _webidl_malloc has been freed.
C9_NoTransientBufferLeft == heap = {}

\* ------------------------------------------------------------- C10
\* C10 (as claimed): back-to-back calls with one geometry and mode, the first
\* on an id that is not cached, make exactly one cook invocation and one
\* insertion, and leave as many live handles, and refs, as there were calls.
C10_AsClaimed ==
  (run.fresh /\ run.calls >= 1) =>
    /\ run.cooks = 1
    /\ run.inserts = 1
    /\ Len(run.handles) = run.calls

\* C10 (amended): the same, for calls whose cooking succeeds (every call of the
\* series returned a handle): one cook invocation, one insertion, all handles
\* live on one cached item whose refs is the number of calls; and in any series
\* at most one call inserts, and no two cached or undestroyed items share an id.
C10_OneCookPerSeries ==
  /\ (run.fresh /\ run.calls >= 1 /\ Len(run.handles) = run.calls) =>
       LET i == handles[run.handles[1]].item
       IN /\ run.cooks = 1
          /\ run.inserts = 1
          /\ \A n \in 1..run.calls : /\ handles[run.handles[n]].item = i
                                     /\ ~handles[run.handles[n]].released
          /\ \A m, n \in 1..run.calls : m # n => run.handles[m] # run.handles[n]
          /\ items[i].refs = run.calls
          /\ items[i].id \in DOMAIN cache /\ cache[items[i].id] = i
  /\ run.inserts <= 1
  /\ run.inserts = 1 => Len(run.handles) >= 1 /\ run.cooks >= 1
  /\ \A i, j \in 1..Len(items) :
       (i # j /\ items[i].id = items[j].id) => (i \in Destroyed \/ j \in Destroyed)

\* as many calls in a series as the bound allows, all on one item
C10_Witness ==
  /\ run.fresh /\ run.calls = MaxAcquires /\ Len(run.handles) = run.calls
  /\ run.cooks = 1
  /\ items[handles[run.handles[1]].item].refs = MaxAcquires

\* ------------------------------------------------------------- C11
\* the call just made was in triangle mode on a geometry without an index
NoIndexTriangleCall ==
  last.op = "acquire" /\ ~run.convex /\ run.geometry.index = "none"

\* C11 (as claimed): every call in triangle mode on a geometry that has no
\* index ends in an exception raised before the cooking routine is invoked,
\* and returns no handle.
C11_AsClaimed ==
  NoIndexTriangleCall =>
    last.result = "throw" /\ last.native = "none" /\ last.handle = Null

\* C11 (amended): a call in triangle mode on a geometry that has no index,
\* whose id is not cached, ends in an exception raised before the cooking
\* routine is invoked (cookCount unchanged) and stores nothing.
C11_MissStep ==
  (AcquireStep /\ NoIndexTriangleCall' /\ last'.id \notin DOMAIN cache) =>
    /\ last'.result = "throw" /\ last'.native = "none" /\ last'.handle = Null
    /\ cookCount' = cookCount
    /\ cache' = cache /\ items' = items /\ handles' = handles
    /\ pmeshes' = pmeshes

C11_NoIndexRejectedOnMiss == [][C11_MissStep]_vars

\* such a call has thrown while other entries are cached
C11_Witness ==
  /\ NoIndexTriangleCall /\ last.path = "miss" /\ last.result = "throw"
  /\ last.mallocs = 1
  /\ cache # <<>>

\* ------------------------------------------------------------- C12
\* C12 (as claimed): a call on a geometry whose position count is not a
\* multiple of 3 is rejected (throws) before any allocation and before any
\* cook invocation, and returns no handle.
C12_BadCountRejected ==
  (last.op = "acquire" /\ Len(run.geometry.positions) % 3 # 0) =>
    /\ last.result = "throw" /\ last.handle = Null
    /\ last.mallocs = 0
    /\ last.native = "none"

\* ------------------------------------------------------------- C13
\* the largest of the three axis sizes, and the threshold 5 * targetExtent
LargestAxis(size) ==
  CHOOSE m \in {size[1], size[2], size[3]} :
    \A n \in {size[1], size[2], size[3]} : n <= m

ScaleThreshold == 5 * TARGET_EXTENT * ExtentUnit

\* C13: the bake scale is 1 whenever the largest axis size is at most
\* 5 * targetExtent (the threshold included), and is targetExtent / maxExtent,
\* which is below 1, whenever it is larger; two boxes with the same largest
\* axis size get the same scale.
C13_BakeScaleThreshold ==
  last.op = "id" =>
    LET r == last.second
        m == LargestAxis(r.size)
    IN /\ m <= ScaleThreshold => r.bakeScale = <<1, 1>>
       /\ m > ScaleThreshold =>
            /\ r.bakeScale[1] * m = r.bakeScale[2] * TARGET_EXTENT * ExtentUnit
            /\ r.bakeScale[1] < r.bakeScale[2]
       /\ (last.first # NoId /\ LargestAxis(last.first.size) = m) =>
            last.first.bakeScale = r.bakeScale

\* a box exactly at the threshold after one just above it
C13_Witness ==
  /\ last.op = "id" /\ last.first # NoId
  /\ LargestAxis(last.second.size) = ScaleThreshold
  /\ last.second.bakeScale = <<1, 1>>
  /\ LargestAxis(last.first.size) = ScaleThreshold + 1
  /\ last.first.bakeScale # <<1, 1>>

\* ------------------------------------------------------------- C14
\* C14: two calls compute the same id exactly when they agree on the uuid, on
\* the mode and on the bake scale.
C14_IdInjective ==
  (last.op = "id" /\ last.first # NoId) =>
    ((last.first.id = last.second.id) <=>
       /\ last.first.uuid = last.second.uuid
       /\ last.first.convex = last.second.convex
       /\ last.first.bakeScale = last.second.bakeScale)

\* two different boxes with one bake scale get one id, and a uuid that ends
\* like a mode has been keyed
C14_Witness ==
  /\ last.op = "id" /\ last.first # NoId
  /\ last.first.id = last.second.id
  /\ last.first.size # last.second.size
  /\ last.first.uuid = "a_convex"

\* ------------------------------------------------------------- C15
\* C15: after every call, the refs of every cached entry is the number of
\* handles created on it and not yet released, and no item's refs is negative.
C15_RefsCountOutstanding ==
  /\ \A i \in Cached : items[i].refs = Cardinality(Outstanding(i))
  /\ \A i \in 1..Len(items) : items[i].refs >= 0

\* an entry with three handles, one of them released
C15_Witness ==
  \E i \in Cached :
    /\ Cardinality(HandlesOf(i)) = 3
    /\ Cardinality(Outstanding(i)) = 2
    /\ items[i].refs = 2

\* ------------------------------------------------------------- C16
\* C16: a call on one id (acquire that hits, cooks or fails, or release) leaves
\* every entry stored under another id as it was; an entry leaves the cache
\* only in the release() that takes its own refs to 0, and an entry with a
\* handle still unreleased stays.
C16_FrameStep ==
  (AcquireStep \/ ReleaseStep) =>
    /\ \A k \in DOMAIN cache :
         k # last'.id =>
           /\ k \in DOMAIN cache'
           /\ cache'[k] = cache[k]
           /\ items'[cache[k]] = items[cache[k]]
    /\ \A i \in Cached :
         /\ Outstanding(i)' # {} => i \in Cached'
         /\ i \notin Cached' =>
              /\ ReleaseStep
              /\ handles[last'.handle].item = i
              /\ items[i].refs = 1 /\ items'[i].refs = 0

C16_OnlyOwnEntryLeaves == [][C16_FrameStep]_vars

\* one entry has just been destroyed while another is still cached
C16_Witness ==
  /\ last.op = "release" /\ last.path = "first"
  /\ last.id \notin DOMAIN cache
  /\ items[handles[last.handle].item].refs = 0
  /\ \E k \in DOMAIN cache : items[cache[k]].refs = 1

\* ------------------------------------------------------------- C17
\* C17: when a call is over (hit, cooked, rejected or thrown), the caller's
\* position floats and index elements are what they were before it.
C17_GeometryNotMutated ==
  last.op = "acquire" =>
    /\ last.after.positions = Floats(run.geometry.positions)
    /\ last.after.indices = run.geometry.indices

\* a call has cooked scaled positions of a geometry
C17_Witness ==
  /\ last.op = "acquire" /\ last.path = "miss" /\ last.desc.mode = "triangles"
  /\ last.desc.points # Floats(run.geometry.positions)
  /\ last.after.positions = Floats(run.geometry.positions)

C19_HandleEntryCached ==
  \A h \in 1..Len(handles) :
    ~handles[h].released =>
      /\ items[handles[h].item].id \in DOMAIN cache
      /\ cache[items[handles[h].item].id] = handles[h].item

C19_Step ==
  /\ C19_HandleEntryCached'
  /\ (ReleaseStep /\ DOMAIN cache' # DOMAIN cache) =>
       LET i == handles[last'.handle].item
       IN /\ DOMAIN cache' = DOMAIN cache \ {items[i].id}
          /\ cache[items[i].id] = i
          /\ \A h \in 1..Len(handles') :
               handles'[h].item = i => handles'[h].released

C19_ReleaseRemovesOwnEntry == [][C19_Step]_vars

\* two unreleased handles on different items while another item has been
\* destroyed
C19_Witness ==
  /\ \E g, h \in 1..Len(handles) :
       /\ ~handles[g].released /\ ~handles[h].released
       /\ handles[g].item # handles[h].item
  /\ Destroyed # {}

\* ------------------------------------------------------------- C20
\* C20: every native mesh the cooking routine returned is either the pmesh of
\* exactly one cached item and has not been released, or is the pmesh of no
\* cached item and has been released exactly once; when every handle has been
\* released the cache is empty and every mesh has been released.
C20_MeshesConserved ==
  /\ \A p \in 1..Len(pmeshes) :
       LET holders == {i \in Cached : items[i].pmesh = p}
       IN \/ pmeshes[p] = 0 /\ Cardinality(holders) = 1
          \/ pmeshes[p] = 1 /\ holders = {}
  /\ (\A h \in 1..Len(handles) : handles[h].released) =>
       /\ cache = <<>>
       /\ \A p \in 1..Len(pmeshes) : pmeshes[p] = 1

\* two meshes cooked, every handle released
C20_Witness ==
  /\ Len(pmeshes) = 2
  /\ Len(handles) = 3
  /\ \A h \in 1..Len(handles) : handles[h].released
  /\ cache = <<>>
====
